---- MODULE Spec2Model ----
(***************************************************************************)
(* Sampling and indexing core of CEBRA: the Dataset / Loader contract of   *)
(* cebra/data/base.py, the noise registry of                               *)
(* cebra/datasets/generate_synthetic_data.py, and the dataset registry and *)
(* Poisson spike generator exercised by tests/test_datasets.py.            *)
(***************************************************************************)
EXTENDS Integers, Sequences, FiniteSets, TLC

\* ---------------------------------------------------------------- bounds
MaxN == 3          \* largest dataset length len(self)
MaxOff == 2        \* largest Offset.left / Offset.right
MaxIdx == 2        \* largest len(index) handed to expand_index
MaxSteps == 3      \* largest Loader.num_steps
MaxBatch == 2      \* largest Loader.batch_size

None == "None"
\* what a call that returns nothing, or raises, leaves as its value
NoValue == [shape |-> <<>>, data |-> <<>>]

Min(a, b) == IF a < b THEN a ELSE b
Max(a, b) == IF a > b THEN a ELSE b

\* ------------------------------------------------- Offset (datatypes.Offset)
Offset(left, right) == [left |-> left, right |-> right]
OffsetLen(o) == o.left + o.right
Offsets == {Offset(l, r) : l \in 0..MaxOff, r \in 0..MaxOff} \ {Offset(0, 0)}

\* a model is anything exposing get_offset()
Models == {[name |-> "model", offset |-> o] : o \in Offsets}
get_offset(model) == model.offset

\* seeds handed to expand_index on a dataset of length len, including ones
\* below 0 and at or above len
Seeds(len) == (0 - 1)..(len + 1)
IndexTensors(len) == UNION {[1..n -> Seeds(len)] : n \in 0..MaxIdx}

\* ------------------------------------------------------------ torch helpers
\* torch.arange(start, end): start, start+1, ..., end-1
arange(start, end) ==
    [k \in 1..(IF end > start THEN end - start ELSE 0) |-> start + k - 1]

\* a clamp that forgets its upper bound
clamp_no_upper(x, lo, hi) == Max(x, lo)
\* torch.clamp on one element: min(max(x, min), max); when min > max every
\* element becomes max
clamp(x, lo, hi) == Min(Max(x, lo), hi)

\* index[:, None] + offset[None, :]
broadcast_add(col, row) ==
    [shape |-> <<Len(col), Len(row)>>,
     data  |-> [i \in 1..Len(col) |-> [j \in 1..Len(row) |-> col[i] + row[j]]]]

\* an expansion that clamps every expanded entry instead of the seed
expand_index_clamp_entries(self_offset, self_len, index) ==
    LET offset == arange(0 - self_offset.left, self_offset.right)
    IN [shape |-> <<Len(index), Len(offset)>>,
        data  |-> [i \in 1..Len(index) |-> [j \in 1..Len(offset) |->
                     clamp(index[i] + offset[j], 0, self_len - 1)]]]

\* Dataset.expand_index
expand_index(self_offset, self_len, index) ==
    LET offset  == arange(0 - self_offset.left, self_offset.right)
        clamped == [i \in 1..Len(index) |->
                      clamp(index[i], self_offset.left,
                            self_len - self_offset.right)]
    IN broadcast_add(clamped, offset)

VARIABLES
    N,            \* len(self) of the dataset
    offset,       \* Dataset.offset
    boundModel,   \* <<model>> of the most recent configure_for, <<>> before
    dsCall,       \* the last Dataset operation
    dsIndex,      \* the index the last operation was an expand_index of
    dsReturn,     \* the value the last operation returned, else NoValue
    dsRaise       \* the exception the last operation raised (None if none)

dsVars == <<N, offset, boundModel, dsCall, dsIndex, dsReturn, dsRaise>>

\* Dataset.__init__
DatasetInit ==
    /\ N \in 0..MaxN
    /\ offset = Offset(0, 1)
    /\ boundModel = <<>>
    /\ dsCall = "__init__"
    /\ dsIndex = <<>>
    /\ dsReturn = NoValue
    /\ dsRaise = None

\* a configure_for that leaves the offset as it was
configure_for_keep(self_offset, model) == self_offset
\* the value Dataset.configure_for assigns to self.offset
configure_for_offset(self_offset, model) == get_offset(model)

\* Dataset.configure_for
configure_for ==
    \E model \in Models :
        /\ offset' = configure_for_offset(offset, model)
        /\ boundModel' = <<model>>
        /\ dsCall' = "configure_for"
        /\ dsIndex' = <<>>
        /\ dsReturn' = NoValue
        /\ dsRaise' = None
        /\ UNCHANGED N

\* Dataset.expand_index
ExpandIndex ==
    \E index \in IndexTensors(N) :
        /\ dsCall' = "expand_index"
        /\ dsIndex' = index
        /\ dsReturn' = expand_index(offset, N, index)
        /\ dsRaise' = None
        /\ UNCHANGED <<N, offset, boundModel>>

\* Dataset.__getitem__ (abstract in the base class: it raises whatever the
\* index is)
GetItem ==
    /\ dsCall' = "__getitem__"
    /\ dsIndex' = <<>>
    /\ dsReturn' = NoValue
    /\ dsRaise' = "NotImplementedError"
    /\ UNCHANGED <<N, offset, boundModel>>

\* ------------------------------------------------------------------ Loader
\* an optional integer: <<>> is None, <<n>> is n
Some(x) == <<x>>
IsNone(v) == v = <<>>
NumStepsArgs == {<<>>} \cup {Some(n) : n \in (0 - 1)..MaxSteps}
BatchSizeArgs == {<<>>} \cup {Some(n) : n \in (0 - 1)..MaxBatch}
\* what a subclass's get_indices and the dataset's load_batch may return
BatchIndices == {"index_a", "index_b"}
Batches == {"batch_a", "batch_b"}
\* what a get_indices or load_batch implementation may raise
Errors == {"NotImplementedError", "ValueError", "StopIteration"}

\* a generator that wraps whatever its body raises
generator_raise_wrapped(err) == "RuntimeError"
\* what the caller of next() sees when the body of the generator __iter__
\* raises err: there is no try / except in the body, so the exception leaves
\* the generator as it is, except that a StopIteration leaving a generator
\* body is replaced by RuntimeError (PEP 479)
generator_raise(err) == IF err = "StopIteration" THEN "RuntimeError" ELSE err

\* a validation that lets zero through
post_init_error_negative_only(num_steps, batch_size) ==
    IF IsNone(num_steps) \/ num_steps[1] < 0 THEN "ValueError"
    ELSE IF ~IsNone(batch_size) /\ batch_size[1] < 0 THEN "ValueError"
    ELSE None
\* Loader.__post_init__: the exception it raises, None if it returns
post_init_error(num_steps, batch_size) ==
    IF IsNone(num_steps) \/ num_steps[1] <= 0 THEN "ValueError"
    ELSE IF ~IsNone(batch_size) /\ batch_size[1] <= 0 THEN "ValueError"
    ELSE None

\* a length that is one short
Loader__len__short(self) == self.num_steps[1] - 1
\* Loader.__len__
Loader__len__(self) == self.num_steps[1]

VARIABLES
    ldArgs,       \* the arguments of the last Loader(...) call
    loader,       \* <<the constructed Loader>>, <<>> while there is none
    ldRaise,      \* the exception the last Loader operation raised, else None
    pc,           \* where the generator of __iter__ stands
    total,        \* range(len(self)), evaluated when the iteration starts
    step,         \* completed passes of the for loop
    index,        \* the local variable index of __iter__
    calls,        \* get_indices / load_batch calls made, in order
    yielded       \* the batches yielded so far

ldVars == <<ldArgs, loader, ldRaise, pc, total, step, index, calls, yielded>>

LoaderInit ==
    /\ ldArgs = [num_steps |-> <<>>, batch_size |-> <<>>]
    /\ loader = <<>>
    /\ ldRaise = None
    /\ pc = "unconstructed"
    /\ total = 0
    /\ step = 0
    /\ index = None
    /\ calls = <<>>
    /\ yielded = <<>>

\* Loader(dataset=..., num_steps=..., batch_size=...): the dataclass __init__
\* stores the fields and runs __post_init__
LoaderNew ==
    /\ loader = <<>>
    /\ \E num_steps \in NumStepsArgs, batch_size \in BatchSizeArgs :
        /\ ldArgs' = [num_steps |-> num_steps, batch_size |-> batch_size]
        /\ ldRaise' = post_init_error(num_steps, batch_size)
        /\ IF post_init_error(num_steps, batch_size) = None
              THEN /\ loader' = <<[num_steps |-> num_steps,
                                   batch_size |-> batch_size]>>
                   /\ pc' = "constructed"
              ELSE /\ loader' = <<>>
                   /\ pc' = "unconstructed"
    /\ UNCHANGED <<total, step, index, calls, yielded>>

\* Loader.__iter__, entering the for loop: range(len(self)) is evaluated once
IterStart ==
    /\ pc = "constructed"
    /\ total' = Loader__len__(loader[1])
    /\ pc' = "loop"
    /\ UNCHANGED <<ldArgs, loader, ldRaise, step, index, calls, yielded>>

\* index = self.get_indices(num_samples=self.batch_size)
GetIndicesReturns ==
    /\ pc = "loop" /\ step < total
    /\ \E ix \in BatchIndices :
        /\ index' = ix
        /\ calls' = Append(calls, [op |-> "get_indices",
                                    arg |-> loader[1].batch_size,
                                    result |-> ix,
                                    error |-> None])
    /\ pc' = "got"
    /\ UNCHANGED <<ldArgs, loader, ldRaise, total, step, yielded>>

\* get_indices raises (the abstract one raises NotImplementedError): the
\* exception leaves the generator, which is finished from then on
GetIndicesRaises ==
    /\ pc = "loop" /\ step < total
    /\ \E err \in Errors :
        /\ calls' = Append(calls, [op |-> "get_indices",
                                    arg |-> loader[1].batch_size,
                                    result |-> "raise",
                                    error |-> err])
        /\ ldRaise' = generator_raise(err)
    /\ pc' = "raised"
    /\ UNCHANGED <<ldArgs, loader, total, step, index, yielded>>

\* yield self.dataset.load_batch(index)
LoadBatchYields ==
    /\ pc = "got"
    /\ \E batch \in Batches :
        /\ calls' = Append(calls, [op |-> "load_batch",
                                    arg |-> <<index>>,
                                    result |-> batch,
                                    error |-> None])
        /\ yielded' = Append(yielded, batch)
    /\ step' = step + 1
    /\ pc' = "loop"
    /\ UNCHANGED <<ldArgs, loader, ldRaise, total, index>>

\* load_batch raises (the abstract one raises NotImplementedError): the
\* exception leaves the generator, which is finished from then on
LoadBatchRaises ==
    /\ pc = "got"
    /\ \E err \in Errors :
        /\ calls' = Append(calls, [op |-> "load_batch",
                                    arg |-> <<index>>,
                                    result |-> "raise",
                                    error |-> err])
        /\ ldRaise' = generator_raise(err)
    /\ pc' = "raised"
    /\ UNCHANGED <<ldArgs, loader, total, step, index, yielded>>

\* the for loop runs out: the generator returns (StopIteration)
IterDone ==
    /\ pc = "loop" /\ step >= total
    /\ pc' = "done"
    /\ UNCHANGED <<ldArgs, loader, ldRaise, total, step, index, calls, yielded>>

IterStep ==
    \/ IterStart
    \/ GetIndicesReturns
    \/ GetIndicesRaises
    \/ LoadBatchYields
    \/ LoadBatchRaises
    \/ IterDone

\* -------------------------------------------- dataset registry (cebra.datasets)
\* names under which dataset types are registered, and the types
DatasetNames == {"demo-discrete", "test-data", "data-a", "data-b"}
DatasetTypes == {"DemoDataset", "TestDataset", "OtherDataset"}

\* a registration that drops the earlier entries
register_alone(reg, name, cls) == [k \in {name} |-> cls]
\* cebra.datasets.register(name)(cls): the registry after the registration
register(reg, name, cls) ==
    [k \in DOMAIN reg \cup {name} |-> IF k = name THEN cls ELSE reg[k]]
\* cebra.datasets.get_options()
get_options(reg) == DOMAIN reg
\* cebra.datasets.init(name): an instance of the type registered under name
init(reg, name) == [instance_of |-> reg[name]]
NoInstance == [instance_of |-> None]

VARIABLES
    registry,        \* name -> registered dataset type
    everRegistered,  \* every <<name, type>> registered so far
    regCall,         \* the last registry operation
    regArg,          \* its name argument
    options,         \* the value of the last get_options()
    instance         \* the value of the last init(name)

regVars == <<registry, everRegistered, regCall, regArg, options, instance>>

\* the registry as populated when cebra.datasets is imported
RegistryInit ==
    /\ registry = [k \in {"demo-discrete"} |-> "DemoDataset"]
    /\ everRegistered = {<<"demo-discrete", "DemoDataset">>}
    /\ regCall = "import"
    /\ regArg = None
    /\ options = {}
    /\ instance = NoInstance

\* @cebra.datasets.register(name) applied to a class, for a new name
Register ==
    \E name \in DatasetNames \ DOMAIN registry, cls \in DatasetTypes :
        /\ registry' = register(registry, name, cls)
        /\ everRegistered' = everRegistered \cup {<<name, cls>>}
        /\ regCall' = "register"
        /\ regArg' = name
        /\ UNCHANGED <<options, instance>>

GetOptions ==
    /\ options' = get_options(registry)
    /\ regCall' = "get_options"
    /\ regArg' = None
    /\ UNCHANGED <<registry, everRegistered, instance>>

RegistryInitCall ==
    \E name \in DOMAIN registry :
        /\ instance' = init(registry, name)
        /\ regCall' = "init"
        /\ regArg' = name
        /\ UNCHANGED <<registry, everRegistered, options>>

\* ------------------------------- noise registry (generate_synthetic_data.py)
MaxRate == 2       \* largest rate entry
MaxLen == 2        \* largest length of a rate array
MaxCount == 2      \* largest sampled count

\* the decorated definitions of the module, in source order
NoiseDefs ==
    <<"poisson", "gaussian", "laplace", "uniform", "t", "refractory_poisson">>
Function(name) == [__name__ |-> name]
RateArrays == UNION {[1..n -> 1..MaxRate] : n \in 1..MaxLen}

\* a registration that drops the earlier entries of the dict
_register_noise_alone(noises, func) == [k \in {func.__name__} |-> func]
\* _register_noise: __noises[func.__name__] = func
_register_noise(noises, func) ==
    [k \in DOMAIN noises \cup {func.__name__} |->
        IF k = func.__name__ THEN func ELSE noises[k]]

\* the samples one noise function may draw for one entry x of its input
NoiseSamples(name, x) ==
    CASE name = "poisson"  -> 0..MaxCount          \* np.random.poisson(x)
      [] name = "gaussian" -> x..(x + 1)           \* truncnorm.rvs(0, 1000, loc=x)
      [] name = "laplace"  -> 0..(x + 1)           \* clip(laplace(x), 0, 1000)
      [] name = "uniform"  -> x..(x + 1)           \* uniform(0, 2, x.shape) + x
      [] name = "t"        -> (x - 1)..(x + 1)     \* t.rvs(2, loc=x)

\* the outcomes of calling a noise function on the rate array x
noise_call(func, x) ==
    IF func.__name__ = "refractory_poisson"
      THEN {[raise |-> "NotImplementedError", value |-> <<>>]}
      ELSE {[raise |-> None, value |-> v] :
              v \in {w \in [1..Len(x) -> (0 - 1)..(MaxRate + 1)] :
                       \A i \in 1..Len(x) :
                           w[i] \in NoiseSamples(func.__name__, x[i])}}

VARIABLES
    noises,       \* the module's __noises dict
    noisePc,      \* "import", "loaded", "looked_up", "called"
    noiseDefs,    \* how many decorated definitions the import has executed
    noiseFunc,    \* the function the last lookup returned
    noiseIn,      \* the rate array handed to it
    noiseOut,     \* the array it returned
    noiseRaise    \* the exception it raised, else None

noiseVars ==
    <<noises, noisePc, noiseDefs, noiseFunc, noiseIn, noiseOut, noiseRaise>>

\* __noises = {}
NoiseInit ==
    /\ noises = [k \in {} |-> Function(None)]
    /\ noisePc = "import"
    /\ noiseDefs = 0
    /\ noiseFunc = Function(None)
    /\ noiseIn = <<>>
    /\ noiseOut = <<>>
    /\ noiseRaise = None

\* the import executes the next @_register_noise definition
RegisterNoise ==
    /\ noisePc = "import"
    /\ noiseDefs < Len(NoiseDefs)
    /\ noises' = _register_noise(noises, Function(NoiseDefs[noiseDefs + 1]))
    /\ noiseDefs' = noiseDefs + 1
    /\ noisePc' = IF noiseDefs + 1 = Len(NoiseDefs) THEN "loaded" ELSE "import"
    /\ UNCHANGED <<noiseFunc, noiseIn, noiseOut, noiseRaise>>

\* func = __noises[args.noise], args.noise being one of list(__noises.keys())
NoiseLookup ==
    /\ noisePc = "loaded"
    /\ \E name \in DOMAIN noises : noiseFunc' = noises[name]
    /\ noisePc' = "looked_up"
    /\ UNCHANGED <<noises, noiseDefs, noiseIn, noiseOut, noiseRaise>>

\* x = noise_func(lam_true)
NoiseCall ==
    /\ noisePc = "looked_up"
    /\ \E x \in RateArrays : \E out \in noise_call(noiseFunc, x) :
        /\ noiseIn' = x
        /\ noiseOut' = out.value
        /\ noiseRaise' = out.raise
    /\ noisePc' = "called"
    /\ UNCHANGED <<noises, noiseDefs, noiseFunc>>

\* ------------------------------------- Poisson spike generator (poisson.py)
MaxRepeats == 3    \* largest PoissonNeuron.num_repeats
MaxNumel == 3      \* largest number of entries of a rate tensor

RECURSIVE Sum(_)
Sum(seq) == IF seq = <<>> THEN 0 ELSE seq[1] + Sum(Tail(seq))
RECURSIVE Prod(_)
Prod(seq) == IF seq = <<>> THEN 1 ELSE seq[1] * Prod(Tail(seq))
SeqMax(seq) ==
    IF seq = <<>> THEN 0 - 1
    ELSE CHOOSE m \in {seq[i] : i \in 1..Len(seq)} :
             \A i \in 1..Len(seq) : seq[i] <= m

\* tensor shapes of rank 1 to 3 with at most MaxNumel entries
Shapes ==
    {sh \in UNION {[1..r -> 1..MaxNumel] : r \in 1..3} : Prod(sh) <= MaxNumel}
numel(shape) == Prod(shape)
\* spike_rate * torch.ones(shape)
ones(shape, rate) == [shape |-> shape, data |-> [i \in 1..numel(shape) |-> rate]]
flatten(tensor) == [shape |-> <<Len(tensor.data)>>, data |-> tensor.data]
view(tensor, shape) == [shape |-> shape, data |-> tensor.data]

\* refractory periods, in units of the observation interval: 0 is none and
\* 1 leaves room for a single spike
RefractoryPeriods == {0, 1}
\* the counts one trial can produce
Counts(refractory_period) == IF refractory_period = 0 THEN 0..MaxCount ELSE 0..1

\* a histogram that marks the occupied bins instead of counting trials
histogram_presence(counts) ==
    [bins |-> [b \in 1..(SeqMax(counts) + 1) |-> b - 1],
     hist |-> [b \in 1..(SeqMax(counts) + 1) |->
                 IF \E i \in 1..Len(counts) : counts[i] = b - 1 THEN 1 ELSE 0]]
\* the histogram of the trial counts: bins 0..max, one bin per count, and in
\* each bin the number of trials with that count
histogram(counts) ==
    [bins |-> [b \in 1..(SeqMax(counts) + 1) |-> b - 1],
     hist |-> [b \in 1..(SeqMax(counts) + 1) |->
                 Cardinality({i \in 1..Len(counts) : counts[i] = b - 1})]]

\* a batch sampling that returns the flattened counts
_sample_batch_flat(spike_rates, draws) ==
    [shape |-> flatten(spike_rates).shape, data |-> draws]
\* _sample_batch / PoissonNeuronTransform.__call__: one draw per entry of the
\* flattened rates, returned in the shape of the rates
_sample_batch(spike_rates, draws) ==
    view([shape |-> flatten(spike_rates).shape, data |-> draws],
         spike_rates.shape)

NoNeuron == [spike_rate |-> 0, num_repeats |-> 0]
NoTensor == [shape |-> <<>>, data |-> <<>>]

VARIABLES
    neuron,       \* the PoissonNeuron's parameters
    poisCall,     \* the last operation of the generator
    trials,       \* the counts drawn by the last sample_poisson, per trial
    bins,         \* the bins it returned
    hist,         \* the histogram it returned
    spikeRates,   \* the rate tensor handed to the last batch sampling
    refractory,   \* the refractory_period of that call
    spikeCounts   \* the count tensor it returned

poisVars ==
    <<neuron, poisCall, trials, bins, hist, spikeRates, refractory, spikeCounts>>

PoissonInit ==
    /\ neuron = NoNeuron
    /\ poisCall = "none"
    /\ trials = <<>>
    /\ bins = <<>>
    /\ hist = <<>>
    /\ spikeRates = NoTensor
    /\ refractory = 0
    /\ spikeCounts = NoTensor

\* poisson.PoissonNeuron(spike_rate=..., num_repeats=...)
PoissonNeuronNew ==
    /\ poisCall = "none"
    /\ \E spike_rate \in 1..MaxRate, num_repeats \in 1..MaxRepeats :
        neuron' = [spike_rate |-> spike_rate, num_repeats |-> num_repeats]
    /\ poisCall' = "PoissonNeuron"
    /\ UNCHANGED <<trials, bins, hist, spikeRates, refractory, spikeCounts>>

\* neuron_model.sample_poisson(): num_repeats Poisson counts, histogrammed
SamplePoisson ==
    /\ poisCall = "PoissonNeuron"
    /\ \E draws \in [1..neuron.num_repeats -> Counts(0)] :
        /\ trials' = draws
        /\ bins' = histogram(draws).bins
        /\ hist' = histogram(draws).hist
    /\ poisCall' = "sample_poisson"
    /\ UNCHANGED <<neuron, spikeRates, refractory, spikeCounts>>

\* the draws of one batch sampling
BatchSampling(call) ==
    /\ poisCall = "none"
    /\ \E shape \in Shapes, rate \in 1..MaxRate,
          refractory_period \in RefractoryPeriods :
        \E draws \in [1..numel(shape) -> Counts(refractory_period)] :
            /\ spikeRates' = ones(shape, rate)
            /\ refractory' = refractory_period
            /\ spikeCounts' = _sample_batch(ones(shape, rate), draws)
    /\ poisCall' = call
    /\ UNCHANGED <<neuron, trials, bins, hist>>

\* poisson._sample_batch(spike_rates, refractory_period=...)
SampleBatch == BatchSampling("_sample_batch")

\* poisson.PoissonNeuronTransform(num_neurons, refractory_period)(spike_rates)
Transform == BatchSampling("PoissonNeuronTransform")

vars == <<dsVars, ldVars, regVars, noiseVars, poisVars>>

\* ---------------------------------------------------------- specifications
DatasetNext ==
    /\ configure_for \/ ExpandIndex \/ GetItem
    /\ UNCHANGED <<ldVars, regVars, noiseVars, poisVars>>

\* every component as constructed; a specification that does not run the
\* dataset fixes its length
Init ==
    /\ DatasetInit /\ LoaderInit /\ RegistryInit /\ NoiseInit /\ PoissonInit

InitFixedDataset == Init /\ N = MaxN

DatasetSpec == Init /\ [][DatasetNext]_vars

LoaderNext ==
    /\ LoaderNew \/ IterStep
    /\ UNCHANGED <<dsVars, regVars, noiseVars, poisVars>>

LoaderSpec == InitFixedDataset /\ [][LoaderNext]_vars

RegistryNext ==
    /\ Register \/ GetOptions \/ RegistryInitCall
    /\ UNCHANGED <<dsVars, ldVars, noiseVars, poisVars>>

RegistrySpec == InitFixedDataset /\ [][RegistryNext]_vars

NoiseNext ==
    /\ RegisterNoise \/ NoiseLookup \/ NoiseCall
    /\ UNCHANGED <<dsVars, ldVars, regVars, poisVars>>

NoiseSpec == InitFixedDataset /\ [][NoiseNext]_vars

\* a consumer that iterates the loader to the end keeps resuming the generator
LoaderFairSpec ==
    /\ LoaderSpec
    /\ WF_vars(IterStep /\ UNCHANGED <<dsVars, regVars, noiseVars, poisVars>>)

PoissonNext ==
    /\ PoissonNeuronNew \/ SamplePoisson \/ SampleBatch \/ Transform
    /\ UNCHANGED <<dsVars, ldVars, regVars, noiseVars>>

PoissonSpec == InitFixedDataset /\ [][PoissonNext]_vars

\* ------------------------------------------------------------ properties
InRange(x, lo, hi) == lo <= x /\ x <= hi
\* the value of a seed restricted to a non-empty range [lo, hi]
Nearest(x, lo, hi) == IF x < lo THEN lo ELSE IF x > hi THEN hi ELSE x
Expanded == dsCall = "expand_index"
Fits == OffsetLen(offset) <= N
Rows == 1..Len(dsIndex)
Cols == 1..OffsetLen(offset)

\* C1: when left + right <= N, expand_index returns a 2-D array of shape
\* (len(index), left + right) whose every entry lies in [0, N), whatever the
\* seeds are (below 0 and at or above N included).
C1_ExpandInBounds ==
    (Expanded /\ Fits) =>
        /\ dsRaise = None
        /\ dsReturn.shape = <<Len(dsIndex), OffsetLen(offset)>>
        /\ Len(dsReturn.data) = Len(dsIndex)
        /\ \A i \in Rows :
              /\ Len(dsReturn.data[i]) = OffsetLen(offset)
              /\ \A j \in Cols : InRange(dsReturn.data[i][j], 0, N - 1)

C1_Witness ==
    /\ Expanded /\ Fits /\ OffsetLen(offset) >= 2 /\ Len(dsIndex) >= 2
    /\ \E i \in Rows : dsIndex[i] < 0
    /\ \E i \in Rows : dsIndex[i] >= N

\* C2 (as amended): result[i, j] = clamp(index[i], left, N - right) + j - left
\* for every i and j, the clamp applied once to the seed (an empty range,
\* left > N - right, sends every seed to N - right), so each row is a run of
\* consecutive integers; for a seed already in [left, N - right] the row is
\* index[i] + j - left, and the seed sits at column left whenever right >= 1
\* (with right = 0 the row ends at index[i] - 1 and has no column left).
C2_SeedClampedOnce ==
    Expanded =>
        \A i \in Rows :
            /\ \A j \in 1..(OffsetLen(offset) - 1) :
                  dsReturn.data[i][j + 1] = dsReturn.data[i][j] + 1
            /\ Fits => \A j \in Cols :
                  dsReturn.data[i][j] =
                      Nearest(dsIndex[i], offset.left, N - offset.right)
                          + (j - 1) - offset.left
            /\ ~Fits => \A j \in Cols :
                  dsReturn.data[i][j] =
                      (N - offset.right) + (j - 1) - offset.left
            /\ InRange(dsIndex[i], offset.left, N - offset.right) =>
                  /\ \A j \in Cols :
                        dsReturn.data[i][j] = dsIndex[i] + (j - 1) - offset.left
                  /\ offset.right >= 1 =>
                        dsReturn.data[i][offset.left + 1] = dsIndex[i]

C2_Witness ==
    /\ Expanded /\ Fits /\ offset.left >= 1 /\ offset.right >= 1
    /\ \E i \in Rows : ~InRange(dsIndex[i], offset.left, N - offset.right)
    /\ \E i \in Rows : InRange(dsIndex[i], offset.left, N - offset.right)

\* C2 as stated: a seed already in [left, N - right] is found at column left
\* of its row.
C2_SeedAtColumnLeft ==
    Expanded =>
        \A i \in Rows :
            InRange(dsIndex[i], offset.left, N - offset.right) =>
                /\ offset.left + 1 <= Len(dsReturn.data[i])
                /\ dsReturn.data[i][offset.left + 1] = dsIndex[i]

\* C3: when N < left + right, expand_index raises a ValueError-kind error for
\* every seed and returns no index array.
C3_ShortDatasetRaises ==
    (Expanded /\ ~Fits) => (dsRaise = "ValueError" /\ dsReturn = NoValue)

\* the offset the dataset is bound to by its history of configure_for calls
BoundOffset ==
    IF boundModel = <<>> THEN Offset(0, 1) ELSE get_offset(boundModel[1])

\* C6: the dataset holds Offset(0, 1) until the first configure_for and the
\* get_offset() of the most recent model afterwards; configure_for changes
\* nothing else; expand_index and __getitem__ leave the offset alone, so every
\* expansion is as wide as the most recently bound offset.
C6_OneBoundOffset ==
    /\ [](offset = BoundOffset)
    /\ [](Expanded => dsReturn.shape[2] = OffsetLen(BoundOffset))
    /\ [][dsCall' = "configure_for" => N' = N]_vars
    /\ [][dsCall' \in {"expand_index", "__getitem__"} => offset' = offset]_vars

C6_Witness ==
    /\ Expanded /\ boundModel # <<>> /\ offset # Offset(0, 1)
    /\ Len(dsIndex) >= 1 /\ dsReturn.shape[2] = OffsetLen(offset)

\* ------------------------------------------------------------------ Loader
Invalid(num_steps, batch_size) ==
    \/ IsNone(num_steps)
    \/ num_steps[1] <= 0
    \/ (~IsNone(batch_size) /\ batch_size[1] <= 0)

\* C4: Loader(...) raises ValueError at construction, before any get_indices
\* or load_batch call, whenever num_steps is None or <= 0 or batch_size is
\* not None and <= 0; it succeeds for every num_steps > 0 with batch_size
\* None or > 0.
C4_LoaderFailsFast ==
    [][pc = "unconstructed" =>
        /\ calls' = <<>> /\ yielded' = <<>>
        /\ IF Invalid(ldArgs'.num_steps, ldArgs'.batch_size)
             THEN ldRaise' = "ValueError" /\ loader' = <<>>
                  /\ pc' = "unconstructed"
             ELSE ldRaise' = None /\ pc' = "constructed"
                  /\ loader' = <<[num_steps |-> ldArgs'.num_steps,
                                  batch_size |-> ldArgs'.batch_size]>>]_vars

C4_Witness ==
    /\ ldRaise = "ValueError" /\ loader = <<>> /\ calls = <<>>
    /\ ~IsNone(ldArgs.num_steps) /\ ldArgs.num_steps[1] > 0
    /\ ldArgs.batch_size = Some(0)

Call(k) == calls[k]
NormalCalls == {k \in 1..Len(calls) : calls[k].result # "raise"}

\* C5: len(loader) is num_steps; an iteration that runs to its end yields
\* exactly num_steps batches; the calls strictly alternate get_indices
\* (with num_samples = batch_size) and load_batch (with the index just
\* returned), and the k-th yielded batch is the k-th load_batch result; the
\* iteration ends.
C5_IterationProtocol ==
    /\ [](loader # <<>> => Loader__len__(loader[1]) = ldArgs.num_steps[1])
    /\ [](pc = "done" => /\ Len(yielded) = ldArgs.num_steps[1]
                         /\ Len(calls) = 2 * ldArgs.num_steps[1])
    /\ [](loader # <<>> => Len(yielded) <= ldArgs.num_steps[1])
    /\ [](\A k \in 1..Len(calls) :
            IF k % 2 = 1
              THEN /\ Call(k).op = "get_indices"
                   /\ Call(k).arg = loader[1].batch_size
              ELSE /\ Call(k).op = "load_batch"
                   /\ Call(k).arg = <<Call(k - 1).result>>)
    /\ [](\A k \in 1..Len(yielded) :
            /\ 2 * k <= Len(calls)
            /\ yielded[k] = Call(2 * k).result)
    /\ [](Len(yielded) = Cardinality({k \in NormalCalls : k % 2 = 0}))
    /\ (pc = "loop" ~> pc \in {"done", "raised"})

C5_Witness ==
    /\ pc = "done" /\ Len(yielded) = MaxSteps /\ Len(calls) = 2 * MaxSteps
    /\ \E j, k \in 1..Len(yielded) : yielded[j] # yielded[k]
    /\ \E j, k \in 1..Len(calls) :
          /\ Call(j).op = "get_indices" /\ Call(k).op = "get_indices"
          /\ Call(j).result # Call(k).result

\* ---------------------------------------------------------------- registry
\* C7: once a type is registered under a name, the name is in get_options()
\* and init(name) returns an instance of exactly that type, whatever other
\* names are registered afterwards.
C7_RegisteredIsConstructible ==
    /\ \A entry \in everRegistered :
          /\ entry[1] \in get_options(registry)
          /\ init(registry, entry[1]).instance_of = entry[2]
    /\ regCall = "get_options" =>
          \A entry \in everRegistered : entry[1] \in options
    /\ regCall = "init" => <<regArg, instance.instance_of>> \in everRegistered

C7_Witness ==
    /\ regCall = "init" /\ regArg = "test-data"
    /\ instance.instance_of = "TestDataset"
    /\ "test-data" \in options
    /\ Cardinality(DOMAIN registry) = Cardinality(DatasetNames)

\* ----------------------------------------------------------------- noises
NoiseKeys ==
    {"poisson", "gaussian", "laplace", "uniform", "t", "refractory_poisson"}

\* C8: the noise registry holds exactly the keys poisson, gaussian, laplace,
\* uniform, t and refractory_poisson, each mapped to the function of that
\* name; refractory_poisson can be looked up, and calling it raises
\* NotImplementedError (not ValueError) and returns no sample array.
C8_NoiseRegistry ==
    /\ noisePc # "import" =>
          /\ DOMAIN noises = NoiseKeys
          /\ \A k \in NoiseKeys : noises[k].__name__ = k
          /\ \E f \in {noises[k] : k \in DOMAIN noises} :
                f.__name__ = "refractory_poisson"
    /\ noisePc \in {"looked_up", "called"} =>
          noiseFunc = noises[noiseFunc.__name__]
    /\ (noisePc = "called" /\ noiseFunc.__name__ = "refractory_poisson") =>
          /\ noiseRaise = "NotImplementedError"
          /\ noiseRaise # "ValueError"
          /\ noiseOut = <<>>
    /\ (noisePc = "called" /\ noiseFunc.__name__ # "refractory_poisson") =>
          /\ noiseRaise = None
          /\ Len(noiseOut) = Len(noiseIn)

C8_Witness ==
    /\ noisePc = "called" /\ noiseFunc.__name__ = "refractory_poisson"
    /\ noiseRaise = "NotImplementedError" /\ Len(noiseIn) = MaxLen

C10_SameShape ==
    poisCall \in {"_sample_batch", "PoissonNeuronTransform"} =>
        /\ spikeCounts.shape = spikeRates.shape
        /\ Len(spikeCounts.data) = numel(spikeRates.shape)
        /\ Len(spikeCounts.data) = Len(spikeRates.data)

C10_Witness ==
    /\ poisCall = "PoissonNeuronTransform" /\ refractory > 0
    /\ Len(spikeRates.shape) = 3 /\ numel(spikeRates.shape) >= 2
    /\ spikeCounts.shape = spikeRates.shape
    /\ \E i, j \in 1..Len(spikeCounts.data) :
          spikeCounts.data[i] # spikeCounts.data[j]

\* --------------------------------------------------------- error propagation
LastCall == calls[Len(calls)]
\* the 1-based pass of the for loop the last call belongs to
LastStep == (Len(calls) + 1) \div 2
NoRetry ==
    /\ \A k \in 1..Len(calls) : Call(k).result = "raise" => k = Len(calls)
    /\ pc = "raised" =>
          /\ Len(calls) >= 1 /\ LastCall.result = "raise"
          /\ LastCall.op = "get_indices" => Len(calls) % 2 = 1
          /\ LastCall.op = "load_batch" => Len(calls) % 2 = 0
          /\ Len(yielded) = LastStep - 1
          /\ Len(yielded) = step

\* C11 (as amended): iteration has no catch or retry: when get_indices raises
\* at step k, load_batch is not called for step k and no further call is
\* made; when load_batch raises at step k, get_indices is not called again;
\* exactly k - 1 batches were yielded; the error reaches the caller as
\* raised, except a StopIteration, which reaches it as RuntimeError.
C11_ErrorsPropagate ==
    /\ [](NoRetry)
    /\ [](pc = "raised" =>
            ldRaise = IF LastCall.error = "StopIteration"
                        THEN "RuntimeError" ELSE LastCall.error)
    /\ [][pc = "raised" =>
            pc' = "raised" /\ calls' = calls /\ yielded' = yielded]_vars

C11_Witness ==
    /\ pc = "raised" /\ LastCall.op = "load_batch"
    /\ LastCall.error = "ValueError" /\ ldRaise = "ValueError"
    /\ LastStep = MaxSteps /\ Len(yielded) = MaxSteps - 1

\* C11 as stated: whatever get_indices or load_batch raises reaches the
\* caller unmodified.
C11_ErrorUnmodified ==
    pc = "raised" => ldRaise = LastCall.error
====
